---- MODULE Spec2Model ----
(***************************************************************************)
(* Gematria calculator (src/app.py): the two computation functions, the    *)
(* Calculate handler and the bounded recent-calculations history of one    *)
(* Streamlit session.                                                      *)
(*                                                                         *)
(* A text is a sequence of Unicode code points (Python str).  A dict is a  *)
(* function whose domain is its set of keys.                               *)
(***************************************************************************)
EXTENDS Integers, Sequences, FiniteSets, TLC

VARIABLES
    history,        \* st.session_state['history']: list of entries, latest first
    query_params,   \* st.query_params: dict with keys among "lang", "text"
    input_text,     \* value of the text area widget
    is_hebrew,      \* language selected in the sidebar
    clicked,        \* whether the last script run was a Calculate click
    results,        \* totals dict computed by the last Calculate run
    breakdown_data, \* per-letter breakdown computed by the last Calculate run
    hist_cols,      \* column indices the History Section used in the last run
    recorded        \* history variable (ghost): every entry ever recorded, latest first

vars == <<history, query_params, input_text, is_hebrew, clicked, results,
          breakdown_data, hist_cols, recorded>>

----------------------------------------------------------------------------
\* Bounds of the exploration.

\* longest text typed, in code points, when the computations are explored
MaxLen == 3
\* Calculate clicks with non-blank text in a long session
MaxRecords == 7
\* Calculate clicks with non-blank text in a session over the wide text set
MaxEntryCalcs == 2
\* Calculate clicks when only the computations are explored
MaxFnCalcs == 1

----------------------------------------------------------------------------
\* Program constants.

\* input_text[:30] and len(input_text) > 30
TruncLen == 30
\* st.session_state['history'][:5]
HistoryCap == 5
\* st.columns(5)
NumHistCols == 5

----------------------------------------------------------------------------
\* Generic helpers.

Min(a, b) == IF a <= b THEN a ELSE b

EmptyDict == [k \in {} |-> 0]

\* dict.get(key, default)
Get(d, key, default) == IF key \in DOMAIN d THEN d[key] ELSE default

RECURSIVE SumSeq(_)
\* sum(...) over a list of integers
SumSeq(s) == IF s = <<>> THEN 0 ELSE s[1] + SumSeq(Tail(s))

RECURSIVE Flatten(_)
\* concatenation of a list of texts
Flatten(ss) == IF ss = <<>> THEN <<>> ELSE ss[1] \o Flatten(Tail(ss))

\* s[:n]
Prefix(s, n) == SubSeq(s, 1, Min(n, Len(s)))

----------------------------------------------------------------------------
\* Tables.

\* U+05D0..U+05EA: alef, bet, gimel, dalet, he, vav, zayin, het, tet, yod,
\* final kaf, kaf, lamed, final mem, mem, final nun, nun, samekh, ayin,
\* final pe, pe, final tsadi, tsadi, qof, resh, shin, tav.
HEBREW_VALUES ==
    (1488 :> 1) @@ (1489 :> 2) @@ (1490 :> 3) @@ (1491 :> 4) @@ (1492 :> 5) @@
    (1493 :> 6) @@ (1494 :> 7) @@ (1495 :> 8) @@ (1496 :> 9) @@ (1497 :> 10) @@
    (1499 :> 20) @@ (1498 :> 20) @@ (1500 :> 30) @@ (1502 :> 40) @@ (1501 :> 40) @@
    (1504 :> 50) @@ (1503 :> 50) @@ (1505 :> 60) @@ (1506 :> 70) @@
    (1508 :> 80) @@ (1507 :> 80) @@ (1510 :> 90) @@ (1509 :> 90) @@
    (1511 :> 100) @@ (1512 :> 200) @@ (1513 :> 300) @@ (1514 :> 400)

\* chr(ord('a') + i) for i in range(26): the code points 97..122
ENGLISH_ORDINAL == [c \in 97..122 |-> (c - 97) + 1]

ENGLISH_REDUCTION == [c \in 97..122 |-> ((c - 97) % 9) + 1]

\* variant: 25 - i, as in the reduction table, instead of 26 - i
ENGLISH_REVERSE_ORDINAL_From25 == [c \in 97..122 |-> 25 - (c - 97)]

ENGLISH_REVERSE_ORDINAL == [c \in 97..122 |-> 26 - (c - 97)]

ENGLISH_REVERSE_REDUCTION == [c \in 97..122 |-> ((25 - (c - 97)) % 9) + 1]

----------------------------------------------------------------------------
\* Python string primitives, on the code points the model's texts use.

\* str.isspace() of one character: the whitespace str.split() and str.strip() use
IsSpace(c) ==
    c \in (9..13) \cup (28..32) \cup {133, 160, 5760, 8232, 8233, 8239, 8287, 12288}
          \cup (8192..8202)

\* c.lower(), a string: A-Z to a-z, KELVIN SIGN (U+212A) to k, LATIN CAPITAL
\* LETTER I WITH DOT ABOVE (U+0130) to the two code points i, U+0307
Lower(c) ==
    IF c \in 65..90 THEN <<c + 32>>
    ELSE IF c = 8490 THEN <<107>>
    ELSE IF c = 304 THEN <<105, 775>>
    ELSE <<c>>

\* c.upper() of a lower-case ASCII letter
Upper(c) == IF c \in 97..122 THEN c - 32 ELSE c

\* compatibility decomposition of one code point: ALEF SYMBOL (U+2135) to alef,
\* BET SYMBOL (U+2136) to bet, HEBREW LETTER SHIN WITH SHIN DOT (U+FB2A) to
\* shin + shin dot, HEBREW LETTER WIDE ALEF (U+FB21) to alef, HEBREW LIGATURE
\* ALEF LAMED (U+FB4F) to alef + lamed, DIAERESIS (U+00A8) to space + U+0308,
\* NO-BREAK SPACE to space, KELVIN SIGN to K, U+0130 to I + U+0307
Decompose(c) ==
    CASE c = 8501 -> <<1488>>
      [] c = 8502 -> <<1489>>
      [] c = 64298 -> <<1513, 1473>>
      [] c = 64289 -> <<1488>>
      [] c = 64335 -> <<1488, 1500>>
      [] c = 168 -> <<32, 776>>
      [] c = 160 -> <<32>>
      [] c = 8490 -> <<75>>
      [] c = 304 -> <<73, 775>>
      [] OTHER -> <<c>>

\* canonical combining class: qamats 18, shin dot 24, U+0307 and U+0308 230
CombiningClass(c) ==
    CASE c = 1464 -> 18
      [] c = 1473 -> 24
      [] c \in {775, 776} -> 230
      [] OTHER -> 0

RECURSIVE CanonicalOrder(_)
\* canonical ordering: combining marks after a starter sorted by class, stably
CanonicalOrder(s) ==
    LET bad == {i \in 1..(Len(s) - 1) :
                   /\ CombiningClass(s[i + 1]) > 0
                   /\ CombiningClass(s[i]) > CombiningClass(s[i + 1])}
    IN  IF bad = {} THEN s
        ELSE LET i == CHOOSE j \in bad : \A k \in bad : j <= k
             IN  CanonicalOrder([s EXCEPT ![i] = s[i + 1], ![i + 1] = s[i]])

\* unicodedata.normalize('NFKD', text)
NFKD(text) == CanonicalOrder(Flatten([i \in DOMAIN text |-> Decompose(text[i])]))

RECURSIVE SplitFrom(_, _)
\* text.split(): the maximal runs of non-whitespace from position i on
SplitFrom(s, i) ==
    IF i > Len(s) THEN <<>>
    ELSE IF IsSpace(s[i]) THEN SplitFrom(s, i + 1)
    ELSE LET ends == {j \in i..Len(s) : j = Len(s) \/ IsSpace(s[j + 1])}
             e == CHOOSE j \in ends : \A k \in ends : j <= k
         IN  <<SubSeq(s, i, e)>> \o SplitFrom(s, e + 1)

Split(s) == SplitFrom(s, 1)

\* text.strip()
Strip(s) ==
    LET keep == {i \in DOMAIN s : ~IsSpace(s[i])}
    IN  IF keep = {} THEN <<>>
        ELSE SubSeq(s, CHOOSE i \in keep : \A k \in keep : i <= k,
                       CHOOSE i \in keep : \A k \in keep : i >= k)

----------------------------------------------------------------------------
\* Computation logic.

\* variant: the plain remainder, which sends 9 and 90 to 0
Small_PlainMod(v) == v % 9

\* (v - 1) % 9 + 1
Small(v) == ((v - 1) % 9) + 1

HebrewTotals(standard, katan, letters, words) ==
    ("Standard" :> standard) @@ ("Mispar Katan" :> katan) @@
    ("Letters" :> letters) @@ ("Words" :> words)

\* variant: the zero result of the empty text, word count included
NoLettersResult_ZeroWords(text) ==
    [totals |-> HebrewTotals(0, 0, 0, 0), breakdown |-> <<>>]

\* the return when no character of the normalized text is in the table
NoLettersResult(text) ==
    [totals |-> HebrewTotals(0, 0, 0, Len(Split(text))), breakdown |-> <<>>]

compute_hebrew_gematria(text) ==
    IF text = <<>>
    THEN [totals |-> HebrewTotals(0, 0, 0, 0), breakdown |-> <<>>]
    ELSE
      LET normalized_text == NFKD(text)
          clean_chars == SelectSeq(normalized_text, LAMBDA c : c \in DOMAIN HEBREW_VALUES)
          clean_values == [i \in DOMAIN clean_chars |-> HEBREW_VALUES[clean_chars[i]]]
      IN  IF clean_chars = <<>>
          THEN NoLettersResult(text)
          ELSE [totals |->
                    HebrewTotals(SumSeq(clean_values),
                                 SumSeq([i \in DOMAIN clean_values |->
                                            Small(clean_values[i])]),
                                 Len(clean_chars),
                                 Len(Split(text))),
                breakdown |->
                    [i \in DOMAIN clean_chars |->
                        ("Letter" :> clean_chars[i]) @@
                        ("Value" :> clean_values[i]) @@
                        ("Small" :> Small(clean_values[i]))]]

\* variant: only the first code point of c.lower() is looked up
CleanText_FirstOfLower(text) ==
    LET lowered == [i \in DOMAIN text |-> Lower(text[i])]
        kept == SelectSeq(lowered, LAMBDA l : l[1] \in 97..122)
    IN  [i \in DOMAIN kept |-> kept[i][1]]

\* [c.lower() for c in text if c.lower() in ENGLISH_ORDINAL]: the keys of the
\* table are one-character strings
CleanText(text) ==
    LET lowered == [i \in DOMAIN text |-> Lower(text[i])]
        kept == SelectSeq(lowered,
                          LAMBDA l : Len(l) = 1 /\ l[1] \in DOMAIN ENGLISH_ORDINAL)
    IN  [i \in DOMAIN kept |-> kept[i][1]]

compute_english_gematria(text) ==
    IF text = <<>>
    THEN [totals |-> EmptyDict, breakdown |-> <<>>]
    ELSE
      LET clean_text == CleanText(text)
      IN  IF clean_text = <<>>
          THEN [totals |-> EmptyDict, breakdown |-> <<>>]
          ELSE [totals |->
                    ("English Ordinal" :>
                        SumSeq([i \in DOMAIN clean_text |-> ENGLISH_ORDINAL[clean_text[i]]])) @@
                    ("Full Reduction" :>
                        SumSeq([i \in DOMAIN clean_text |-> ENGLISH_REDUCTION[clean_text[i]]])) @@
                    ("Reverse Ordinal" :>
                        SumSeq([i \in DOMAIN clean_text |->
                                   ENGLISH_REVERSE_ORDINAL[clean_text[i]]])) @@
                    ("Reverse Reduction" :>
                        SumSeq([i \in DOMAIN clean_text |->
                                   ENGLISH_REVERSE_REDUCTION[clean_text[i]]])),
                breakdown |->
                    [i \in DOMAIN clean_text |->
                        ("Letter" :> Upper(clean_text[i])) @@
                        ("Ordinal" :> ENGLISH_ORDINAL[clean_text[i]]) @@
                        ("Reduction" :> ENGLISH_REDUCTION[clean_text[i]]) @@
                        ("Rev. Ordinal" :> ENGLISH_REVERSE_ORDINAL[clean_text[i]]) @@
                        ("Rev. Reduction" :> ENGLISH_REVERSE_REDUCTION[clean_text[i]])]]

----------------------------------------------------------------------------
\* UI structure: one run of the script.

\* URL parameters handling
default_lang_idx(qp) ==
    IF "lang" \in DOMAIN qp
    THEN IF qp["lang"] = "english" THEN 1 ELSE 0
    ELSE 0

default_text(qp) == IF "text" \in DOMAIN qp THEN qp["text"] ELSE <<>>

\* main header: lang_key of the selected language
lang_key(heb) == IF heb THEN "hebrew" ELSE "english"

\* variant: truncates from thirty characters on (>= for >)
Entry_TruncateFrom30(text, heb, res) ==
    [text |-> IF Len(text) >= TruncLen THEN Prefix(text, TruncLen) \o <<46, 46, 46>>
              ELSE text,
     lang |-> IF heb THEN "Hebrew" ELSE "English",
     val  |-> IF heb THEN Get(res, "Standard", 0) ELSE Get(res, "English Ordinal", 0)]

\* the entry the Calculate action builds
Entry(text, heb, res) ==
    [text |-> IF Len(text) > TruncLen THEN Prefix(text, TruncLen) \o <<46, 46, 46>>
              ELSE text,
     lang |-> IF heb THEN "Hebrew" ELSE "English",
     val  |-> IF heb THEN Get(res, "Standard", 0) ELSE Get(res, "English Ordinal", 0)]

\* variant: append at the end instead of insert(0, entry)
UpdateHistory_Append(h, text, heb, res) ==
    IF Strip(text) # <<>>
    THEN Prefix(h \o <<Entry(text, heb, res)>>, HistoryCap)
    ELSE h

\* variant: the slice keeps one entry more than there are columns
UpdateHistory_KeepSix(h, text, heb, res) ==
    IF Strip(text) # <<>>
    THEN Prefix(<<Entry(text, heb, res)>> \o h, HistoryCap + 1)
    ELSE h

\* variant: "if input_text:" without strip()
UpdateHistory_NoStrip(h, text, heb, res) ==
    IF text # <<>>
    THEN Prefix(<<Entry(text, heb, res)>> \o h, HistoryCap)
    ELSE h

\* variant: nothing is recorded when the result has no recognized letter
UpdateHistory_SkipEmptyResult(h, text, heb, res) ==
    IF Strip(text) # <<>> /\ Get(res, "Letters", 0) + Get(res, "English Ordinal", 0) > 0
    THEN Prefix(<<Entry(text, heb, res)>> \o h, HistoryCap)
    ELSE h

\* Update History: insert at the front, keep the first five
UpdateHistory(h, text, heb, res) ==
    IF Strip(text) # <<>>
    THEN Prefix(<<Entry(text, heb, res)>> \o h, HistoryCap)
    ELSE h

\* History Section: the indices the loop subscripts hist_cols with; the first
\* index past the NumHistCols columns raises IndexError and ends the run
HistorySection(h) ==
    IF h # <<>>
    THEN {i \in 0..(Len(h) - 1) : i <= NumHistCols}
    ELSE {}

\* some character of the text is not whitespace
NonBlank(text) == \E i \in DOMAIN text : ~IsSpace(text[i])

\* One top-to-bottom run of the script with the widgets holding text and heb;
\* click says whether the Calculate button triggered the run.
ScriptRun(text, heb, click) ==
    LET out == IF heb THEN compute_hebrew_gematria(text)
               ELSE compute_english_gematria(text)
    IN  /\ input_text' = text
        /\ is_hebrew' = heb
        /\ clicked' = click
        /\ query_params' = IF click
                           THEN ("lang" :> lang_key(heb)) @@ ("text" :> text)
                           ELSE query_params
        /\ results' = IF click THEN out.totals ELSE EmptyDict
        /\ breakdown_data' = IF click THEN out.breakdown ELSE <<>>
        /\ history' = IF click THEN UpdateHistory(history, text, heb, out.totals)
                      ELSE history
        /\ hist_cols' = HistorySection(history')
        /\ recorded' = IF click /\ NonBlank(text)
                       THEN <<Entry(text, heb, out.totals)>> \o recorded
                       ELSE recorded

\* The first run of a session opened with the URL parameters qp.
InitOver(QP) ==
    \E qp \in QP :
        /\ query_params = qp
        /\ input_text = default_text(qp)
        /\ is_hebrew = (default_lang_idx(qp) = 0)
        /\ history = <<>>
        /\ clicked = FALSE
        /\ results = EmptyDict
        /\ breakdown_data = <<>>
        /\ hist_cols = HistorySection(<<>>)
        /\ recorded = <<>>

\* the URL parameter sets with texts T and lang values L
QueryParams(T, L) ==
    {EmptyDict} \cup {("text" :> t) : t \in T} \cup {("lang" :> l) : l \in L}
        \cup {("lang" :> l) @@ ("text" :> t) : l \in L, t \in T}

\* a widget changed: the script reruns without the button
RerunOver(T) == \E t \in T, h \in BOOLEAN : ScriptRun(t, h, FALSE)

\* the Calculate button: the script reruns with the widgets as they are
CalculateUpTo(cap) ==
    /\ NonBlank(input_text) => Len(recorded) < cap
    /\ ScriptRun(input_text, is_hebrew, TRUE)

----------------------------------------------------------------------------
\* Texts.

Repeat(c, n) == [i \in 1..n |-> c]

\* all texts over alphabet A of at most n code points
TextsUpTo(A, n) == UNION {[1..k -> A] : k \in 0..n}

\* a long session: a blank text and " <alef>1"
SessionTexts == {<<32>>, <<32, 1488, 49>>}

\* "", whitespace only, " <alef>1", "aB", "12", thirty a, thirty a and one alef
EntryTexts ==
    {<<>>, <<32, 160>>, <<32, 1488, 49>>, <<97, 66>>, <<49, 50>>,
     Repeat(97, TruncLen), Repeat(97, TruncLen) \o <<1488>>}

\* space, NO-BREAK SPACE, DIAERESIS, "1", a, j, z, B, KELVIN SIGN, U+0130,
\* alef, final kaf, tav, qamats, ALEF SYMBOL, SHIN WITH SHIN DOT
FnAlphabet ==
    {32, 160, 168, 49, 97, 106, 122, 66, 8490, 304,
     1488, 1498, 1514, 1464, 8501, 64298}

\* every letter of the tables, and the other code points modelled
FullCharset ==
    (65..90) \cup (97..122) \cup (1488..1514) \cup FnAlphabet
        \cup {9, 10, 8502, 64289, 64335, 1473, 775, 776}

\* "<alef><bet><gimel>", "<shin><lamed><vav><final mem>", "abc", "123"
ConcreteTexts ==
    {<<1488, 1489, 1490>>, <<1513, 1500, 1493, 1501>>, <<97, 98, 99>>, <<49, 50, 51>>}

FnTexts ==
    TextsUpTo(FnAlphabet, MaxLen) \cup {<<c>> : c \in FullCharset} \cup ConcreteTexts

----------------------------------------------------------------------------
\* Specifications.

\* a long session over few texts
Init == InitOver(QueryParams(SessionTexts, {"english", "hebrew", "fr"}))

Rerun == RerunOver(SessionTexts)

Calculate == CalculateUpTo(MaxRecords)

Next == Rerun \/ Calculate

Spec == Init /\ [][Next]_vars

\* a short session over the texts that exercise the entry
InitEntry == InitOver(QueryParams(EntryTexts, {"english", "hebrew"}))

RerunEntry == RerunOver(EntryTexts)

CalculateEntry == CalculateUpTo(MaxEntryCalcs)

NextEntry == RerunEntry \/ CalculateEntry

SpecEntry == InitEntry /\ [][NextEntry]_vars

\* the computations: a session opened on a text, then Calculate
InitFn ==
    InitOver({("lang" :> l) @@ ("text" :> t) : l \in {"english", "hebrew"}, t \in FnTexts})

CalculateFn == CalculateUpTo(MaxFnCalcs)

NextFn == CalculateFn

SpecFn == InitFn /\ [][NextFn]_vars

----------------------------------------------------------------------------
\* Vocabulary of the properties.

\* a letter of the Hebrew script: the alphabet U+05D0..U+05EA and the Hebrew
\* presentation forms U+FB1D..U+FB4F (the letterlike ALEF/BET/GIMEL/DALET
\* SYMBOLs U+2135..U+2138 are mathematical symbols, not Hebrew letters)
IsHebrewLetter(c) == c \in (1488..1514) \cup (64285..64335)

\* a letter a-z case-insensitively: a-z, A-Z and KELVIN SIGN, which is
\* canonically the letter K and lower-cases to k
IsLatinLetterCI(c) == c \in (97..122) \cup (65..90) \cup {8490}

\* an ASCII letter a-z or A-Z
IsAsciiLetter(c) == c \in (97..122) \cup (65..90)

\* 1-based position in the alphabet of an ASCII letter
AlphabetPosition(c) == IF c \in 97..122 THEN c - 96 ELSE c - 64

\* number of maximal runs of non-whitespace
TokenCount(s) ==
    Cardinality({i \in DOMAIN s : ~IsSpace(s[i]) /\ (i = 1 \/ IsSpace(s[i - 1]))})

\* the text shown in an entry for raw text t
Shown(t) == IF Len(t) <= 30 THEN t ELSE SubSeq(t, 1, 30) \o <<46, 46, 46>>

\* positions of the letters of the Hebrew alphabet in a normalized text
LetterPositions(n) == {i \in DOMAIN n : n[i] \in 1488..1514}

\* the j-th smallest element of a set of positions
NthPosition(S, j) == CHOOSE i \in S : Cardinality({k \in S : k <= i}) = j

RECURSIVE SumAt(_, _, _)
\* sum of f[n[i]] over the positions i in S
SumAt(f, n, S) ==
    IF S = {} THEN 0
    ELSE LET i == CHOOSE k \in S : TRUE
         IN  f[n[i]] + SumAt(f, n, S \ {i})

\* (final form, regular form): kaf, mem, nun, pe, tsadi
FinalForms == {<<1498, 1499>>, <<1501, 1502>>, <<1503, 1504>>, <<1507, 1508>>,
               <<1509, 1510>>}

\* value reduced to 1..9
ReducedOf == [v \in 1..400 |-> ((v - 1) % 9) + 1]

EnglishKeys == {"English Ordinal", "Full Reduction", "Reverse Ordinal", "Reverse Reduction"}

----------------------------------------------------------------------------
\* Properties of the history (Spec, SpecEntry).

\* C1: the log never holds more than 5 entries and is exactly the latest
\* min(k,5) of the k recordings with non-blank text, latest first; after 7
\* recordings it holds the 5 latest.
C1_RecentLogCap ==
    /\ Len(history) <= 5
    /\ Len(history) = Min(Len(recorded), 5)
    /\ \A i \in DOMAIN history : history[i] = recorded[i]
    /\ Len(recorded) = 7 => Len(history) = 5

C1_Witness ==
    /\ Len(recorded) = 7
    /\ Len(history) = 5
    /\ history[1] # history[2]
    /\ recorded[6] # history[5]

\* C2 as stated: a Calculate whose result has no recognized letter adds no entry.
C2_NoEntryForEmptyResult ==
    [][clicked' /\ breakdown_data' = <<>> => history' = history]_vars

\* C2 amended: the log changes only by a Calculate with non-blank text, and a
\* Calculate with non-blank text and no recognized letter still puts an entry
\* with value 0 at the front.
C2_EntryOnlyForNonBlankText ==
    [][/\ history' # history => clicked' /\ NonBlank(input_text')
       /\ clicked' /\ NonBlank(input_text') /\ breakdown_data' = <<>> =>
            /\ Len(history') = Min(Len(history) + 1, 5)
            /\ history'[1].text = Shown(input_text')
            /\ history'[1].val = 0]_vars

C2_Witness ==
    /\ clicked /\ ~is_hebrew
    /\ NonBlank(input_text)
    /\ breakdown_data = <<>>
    /\ history # <<>>
    /\ history[1] = [text |-> input_text, lang |-> "English", val |-> 0]

\* C3: a Calculate on an empty or whitespace-only text leaves the log unchanged.
C3_BlankTextIsNoOp ==
    [][clicked' /\ ~NonBlank(input_text') => history' = history]_vars

C3_Witness ==
    /\ clicked
    /\ input_text # <<>> /\ ~NonBlank(input_text)
    /\ history # <<>>
    /\ query_params["text"] = input_text

\* C4: after a Calculate on non-blank text, entry 0 shows the raw text, cut to
\* 30 characters plus "..." when longer, the selected scheme, and the Standard
\* or English Ordinal total (0 when the result lacks it).
C4_EntryFields ==
    clicked /\ NonBlank(input_text) =>
        /\ history # <<>>
        /\ history[1].text = Shown(input_text)
        /\ Len(history[1].text) <= 33
        /\ history[1].lang = IF is_hebrew THEN "Hebrew" ELSE "English"
        /\ history[1].val =
              IF is_hebrew THEN results["Standard"]
              ELSE IF "English Ordinal" \in DOMAIN results
                   THEN results["English Ordinal"] ELSE 0

C4_Witness ==
    /\ clicked /\ ~is_hebrew
    /\ Len(input_text) > 30
    /\ Len(history[1].text) = 33
    /\ history[1].val = 30

\* C10: the History Section only uses columns 0..4, and a run without the
\* Calculate button leaves the log unchanged.
C10_HistoryColumnsInRange ==
    /\ [](hist_cols \subseteq 0..4)
    /\ [][~clicked' => history' = history]_vars

C10_Witness ==
    /\ ~clicked
    /\ Len(history) = 5
    /\ hist_cols = 0..4

----------------------------------------------------------------------------
\* Properties of the computations (SpecFn).

\* C5 as stated: a text with no Hebrew letter gets Letters, Standard and
\* Mispar Katan 0 and an empty breakdown.
C5_NoHebrewLetterAllZero ==
    (clicked /\ is_hebrew /\ \A i \in DOMAIN input_text : ~IsHebrewLetter(input_text[i]))
        => /\ results["Letters"] = 0
           /\ results["Standard"] = 0
           /\ results["Mispar Katan"] = 0
           /\ breakdown_data = <<>>

\* C6: with at least one recognized letter, Standard is the sum of the letters'
\* values, Mispar Katan the sum of the reduced values, Letters their number,
\* the breakdown one entry per letter in order; a final form counts as its
\* regular form.
C6_HebrewTotalsAndBreakdown ==
    clicked /\ is_hebrew =>
        LET n == NFKD(input_text)
            P == LetterPositions(n)
        IN  /\ P # {} =>
                /\ results["Standard"] = SumAt(HEBREW_VALUES, n, P)
                /\ results["Mispar Katan"] =
                      SumAt([c \in DOMAIN HEBREW_VALUES |-> ReducedOf[HEBREW_VALUES[c]]], n, P)
                /\ results["Letters"] = Cardinality(P)
                /\ Len(breakdown_data) = Cardinality(P)
                /\ \A j \in DOMAIN breakdown_data :
                      LET c == n[NthPosition(P, j)]
                      IN  /\ breakdown_data[j]["Letter"] = c
                          /\ breakdown_data[j]["Value"] = HEBREW_VALUES[c]
                          /\ breakdown_data[j]["Small"] = ReducedOf[HEBREW_VALUES[c]]
                          /\ breakdown_data[j]["Small"] \in 1..9
            /\ \A p \in FinalForms :
                  input_text = <<p[1]>> =>
                      results["Standard"] = compute_hebrew_gematria(<<p[2]>>).totals["Standard"]
            /\ input_text = <<1488, 1489, 1490>> =>
                  results = HebrewTotals(6, 6, 3, 1)
            /\ input_text = <<1513, 1500, 1493, 1501>> =>
                  results["Standard"] = 376 /\ results["Mispar Katan"] = 16

C6_Witness ==
    /\ clicked /\ is_hebrew
    /\ Len(breakdown_data) = 2
    /\ Len(input_text) = 3
    /\ breakdown_data[1]["Letter"] = 1498
    /\ breakdown_data[2]["Letter"] = 1514
    /\ results["Standard"] = 420

\* C7: Words is the number of whitespace-delimited tokens of the text as
\* typed, with or without Hebrew letters in it.
C7_WordCount ==
    clicked /\ is_hebrew => results["Words"] = TokenCount(input_text)

C7_Witness ==
    /\ clicked /\ is_hebrew
    /\ results["Words"] = 2
    /\ results["Letters"] = 0
    /\ 168 \in {input_text[i] : i \in DOMAIN input_text}

\* C8: a text with no letter a-z (case-insensitive) gets an empty totals dict
\* and an empty breakdown; any other text gets exactly the four totals.
C8_EnglishEmptyOrFull ==
    clicked /\ ~is_hebrew =>
        IF \A i \in DOMAIN input_text : ~IsLatinLetterCI(input_text[i])
        THEN results = EmptyDict /\ breakdown_data = <<>>
        ELSE DOMAIN results = EnglishKeys /\ breakdown_data # <<>>

C8_Witness ==
    /\ clicked /\ ~is_hebrew
    /\ Len(input_text) = 3
    /\ 1488 \in {input_text[i] : i \in DOMAIN input_text}
    /\ 49 \in {input_text[i] : i \in DOMAIN input_text}
    /\ results = EmptyDict

\* C9 as stated: for every text of only a-z/A-Z letters, Reverse Ordinal is
\* the sum of 27 - position over its letters.
C9_ReverseOrdinalOfLetterTexts ==
    (clicked /\ ~is_hebrew /\ \A i \in DOMAIN input_text : IsAsciiLetter(input_text[i]))
        => /\ "Reverse Ordinal" \in DOMAIN results
           /\ results["Reverse Ordinal"] =
                 SumSeq([i \in DOMAIN input_text |-> 27 - AlphabetPosition(input_text[i])])

\* C9 amended: the same for every non-empty text of only a-z/A-Z letters,
\* with English Ordinal + Reverse Ordinal = 27 * letters and each letter's
\* Rev. Reduction = ((Rev. Ordinal - 1) mod 9) + 1.
C9_ReverseOrdinalOfNonEmptyLetterTexts ==
    (/\ clicked /\ ~is_hebrew
     /\ input_text # <<>>
     /\ \A i \in DOMAIN input_text : IsAsciiLetter(input_text[i]))
        => /\ "Reverse Ordinal" \in DOMAIN results
           /\ results["Reverse Ordinal"] =
                 SumSeq([i \in DOMAIN input_text |-> 27 - AlphabetPosition(input_text[i])])
           /\ results["English Ordinal"] + results["Reverse Ordinal"] = 27 * Len(input_text)
           /\ Len(breakdown_data) = Len(input_text)
           /\ \A j \in DOMAIN breakdown_data :
                 /\ breakdown_data[j]["Rev. Ordinal"] = 27 - AlphabetPosition(input_text[j])
                 /\ breakdown_data[j]["Rev. Reduction"] =
                       ((breakdown_data[j]["Rev. Ordinal"] - 1) % 9) + 1
           /\ input_text = <<97, 98, 99>> =>
                 results["English Ordinal"] = 6 /\ results["Reverse Ordinal"] = 75

C9_Witness ==
    /\ clicked /\ ~is_hebrew
    /\ input_text = <<66, 97, 122>>
    /\ results["Reverse Ordinal"] = 52

====
